---- MODULE Spec2Model ----
(***************************************************************************)
(* A model of the movie search server (src/Server.cpp): the catalog       *)
(* loader, the inverted index, the POST and SEARCH query paths.           *)
(*                                                                         *)
(* Strings are TLA+ strings; a character is a string of length 1.         *)
(* Item identifiers are 0-based, as in the source: the item with          *)
(* identifier id is movies[id + 1].                                        *)
(* A rating is held in tenths (8.8 is 88): the catalog files of the model *)
(* carry at most one fractional digit.                                     *)
(***************************************************************************)
EXTENDS Integers, Sequences, FiniteSets, TLC

(***************************************************************************)
(* Characters and strings                                                  *)
(***************************************************************************)
CharAt(s, i) == SubSeq(s, i, i)

Chars(s) == {CharAt(s, i) : i \in 1..Len(s)}

UpperCase == "ABCDEFGHIJKLMNOPQRSTUVWXYZ"

LowerCase == "abcdefghijklmnopqrstuvwxyz"

Digits == "0123456789"

\* ::tolower on one character
tolower(c) ==
    IF \E i \in 1..Len(UpperCase) : CharAt(UpperCase, i) = c
    THEN CharAt(LowerCase, CHOOSE i \in 1..Len(UpperCase) : CharAt(UpperCase, i) = c)
    ELSE c

RECURSIVE toLower(_)
toLower(str) ==
    IF str = "" THEN ""
    ELSE tolower(CharAt(str, 1)) \o toLower(SubSeq(str, 2, Len(str)))

\* the characters cleanWord strips from both ends of a word
CleanSet == Chars(" \".,:;!?()[]{}<>")

\* std::string::find_first_not_of: the first position (1-based) holding a
\* character outside set, Len(s) + 1 standing for npos
FindFirstNotOf(s, set) ==
    IF \E i \in 1..Len(s) : CharAt(s, i) \notin set
    THEN CHOOSE i \in 1..Len(s) :
            /\ CharAt(s, i) \notin set
            /\ \A j \in 1..(i - 1) : CharAt(s, j) \in set
    ELSE Len(s) + 1

\* std::string::find_last_not_of: the last position (1-based) holding a
\* character outside set, 0 standing for npos (npos + 1 = 0 in the source)
FindLastNotOf(s, set) ==
    IF \E i \in 1..Len(s) : CharAt(s, i) \notin set
    THEN CHOOSE i \in 1..Len(s) :
            /\ CharAt(s, i) \notin set
            /\ \A j \in (i + 1)..Len(s) : CharAt(s, j) \in set
    ELSE 0

\* erase(0, find_first_not_of(set)) then erase(find_last_not_of(set) + 1)
Trim(s, set) ==
    LET clean == SubSeq(s, FindFirstNotOf(s, set), Len(s))
    IN  IF clean = "" THEN "" ELSE SubSeq(clean, 1, FindLastNotOf(clean, set))

cleanWord(word) == Trim(word, CleanSet)

\* the whitespace operator>> skips
WhiteSpace == Chars(" \t\n\r")

\* the words operator>> reads from an istringstream over text, in order
RECURSIVE SplitWords(_)
SplitWords(text) ==
    LET start == FindFirstNotOf(text, WhiteSpace)
    IN  IF start > Len(text) THEN <<>>
        ELSE LET rest == SubSeq(text, start, Len(text))
                 stop == IF \E i \in 1..Len(rest) : CharAt(rest, i) \in WhiteSpace
                         THEN (CHOOSE i \in 1..Len(rest) :
                                 /\ CharAt(rest, i) \in WhiteSpace
                                 /\ \A j \in 1..(i - 1) : CharAt(rest, j) \notin WhiteSpace)
                         ELSE Len(rest) + 1
             IN  <<SubSeq(rest, 1, stop - 1)>> \o SplitWords(SubSeq(rest, stop, Len(rest)))

\* the pieces std::getline(stream, piece, delim) reads from text, in order:
\* a trailing empty piece after the last delimiter is not produced
RECURSIVE SplitOn(_, _)
SplitOn(text, delim) ==
    IF text = "" THEN <<>>
    ELSE LET stop == IF \E i \in 1..Len(text) : CharAt(text, i) = delim
                     THEN (CHOOSE i \in 1..Len(text) :
                             /\ CharAt(text, i) = delim
                             /\ \A j \in 1..(i - 1) : CharAt(text, j) # delim)
                     ELSE Len(text) + 1
         IN  <<SubSeq(text, 1, stop - 1)>> \o SplitOn(SubSeq(text, stop + 1, Len(text)), delim)

\* std::to_string(int)
RECURSIVE NatToString(_)
NatToString(n) ==
    IF n < 10 THEN CharAt(Digits, n + 1)
    ELSE NatToString(n \div 10) \o CharAt(Digits, (n % 10) + 1)

to_string(n) == IF n < 0 THEN "-" \o NatToString(0 - n) ELSE NatToString(n)

(***************************************************************************)
(* struct Movie                                                            *)
(***************************************************************************)
Movie(id, title, overview, language, genreList, year, rating, posterUrl) ==
    [id |-> id, title |-> title, overview |-> overview, language |-> language,
     genres |-> genreList, year |-> year, rating |-> rating, posterUrl |-> posterUrl]

\* the item the source addresses as movies[id]
MovieAt(mv, id) == mv[id + 1]

(***************************************************************************)
(* class InvertedIndex: index is a map from key to a set of identifiers,   *)
(* here a function whose domain is the set of keys present.                *)
(***************************************************************************)
EmptyIndex == <<>>

\* index[key].insert(movieId)
addToIndex(idx, key, movieId) ==
    IF key \in DOMAIN idx
    THEN [idx EXCEPT ![key] = @ \cup {movieId}]
    ELSE [k \in (DOMAIN idx) \cup {key} |-> IF k = key THEN {movieId} ELSE idx[k]]

\* the words of the genres of a movie, each genre split on whitespace
RECURSIVE GenreWords(_)
GenreWords(genreList) ==
    IF genreList = <<>> THEN <<>>
    ELSE SplitWords(Head(genreList)) \o GenreWords(Tail(genreList))

\* RatingFloor as it would be with the rating rounded up
RatingCeiling(rating) == (rating + 9) \div 10

\* static_cast<int>(movie.rating), the rating being held in tenths
RatingFloor(rating) == rating \div 10

\* RatingKeys as it would be with i < 10 for the loop test
RECURSIVE RatingKeysBelow(_, _)
RatingKeysBelow(i, last) ==
    IF i >= last THEN <<>>
    ELSE <<"rating_" \o to_string(i)>> \o RatingKeysBelow(i + 1, last)

RECURSIVE RatingKeys(_, _)
RatingKeys(i, last) ==
    IF i > last THEN <<>>
    ELSE <<"rating_" \o to_string(i)>> \o RatingKeys(i + 1, last)

\* the lambda processText of addMovie: one key per non-empty cleaned word
RECURSIVE TextKeys(_, _)
TextKeys(words, category) ==
    IF words = <<>> THEN <<>>
    ELSE LET word == toLower(cleanWord(Head(words)))
         IN  (IF word # "" THEN <<category \o word>> ELSE <<>>)
                \o TextKeys(Tail(words), category)

processText(text, category) == TextKeys(SplitWords(text), category)

RECURSIVE GenreKeys(_)
GenreKeys(words) ==
    IF words = <<>> THEN <<>>
    ELSE <<"genre_" \o toLower(Head(words))>> \o GenreKeys(Tail(words))

\* the keys addMovie passes to addToIndex, in the order of its calls
addMovieKeys(movie) ==
    GenreKeys(GenreWords(movie.genres))
    \o <<"year_" \o to_string(movie.year)>>
    \o <<"language_" \o toLower(movie.language)>>
    \o RatingKeys(RatingFloor(movie.rating), 10)
    \o processText(movie.title, "title_")
    \o processText(movie.overview, "overview_")

RECURSIVE AddKeys(_, _, _)
AddKeys(idx, keys, id) ==
    IF keys = <<>> THEN idx
    ELSE AddKeys(addToIndex(idx, Head(keys), id), Tail(keys), id)

addMovie(idx, id, movie) == AddKeys(idx, addMovieKeys(movie), id)

\* the loop of loadMovies over movies, from position i (0-based) on
RECURSIVE AddMoviesFrom(_, _, _)
AddMoviesFrom(idx, mv, i) ==
    IF i >= Len(mv) THEN idx
    ELSE AddMoviesFrom(addMovie(idx, i, MovieAt(mv, i)), mv, i + 1)

\* invertedIndex.clear() followed by addMovie(i, movies[i]) for every i
RebuildIndex(mv) == AddMoviesFrom(EmptyIndex, mv, 0)

\* searchByCategory as it would be without the toLower of value
searchByCategoryExact(idx, category, value) ==
    LET key == (category \o "_") \o value
    IN  IF key \in DOMAIN idx THEN idx[key] ELSE {}

searchByCategory(idx, category, value) ==
    LET key == (category \o "_") \o toLower(value)
    IN  IF key \in DOMAIN idx THEN idx[key] ELSE {}

intersectResults(baseResults, additionalResults) ==
    {id \in baseResults : id \in additionalResults}

Categories == <<"title_", "overview_", "genre_", "language_", "year_", "rating_">>

\* the inner loop over the six categories: the union of the postings of word
CategoryUnion(idx, word) ==
    UNION {IF (Categories[c] \o word) \in DOMAIN idx
           THEN idx[Categories[c] \o word] ELSE {} : c \in 1..Len(Categories)}

\* KeywordStep as it would be with the keyword results added to the running set
KeywordStepUnion(isFirst, currentResults, keyResults) ==
    IF isFirst THEN keyResults ELSE currentResults \cup keyResults

\* the else branch tested by isFirst in searchByKeywords
KeywordStep(isFirst, currentResults, keyResults) ==
    IF isFirst THEN keyResults ELSE intersectResults(currentResults, keyResults)

\* the loop of searchByKeywords from keyword k on, with its break
RECURSIVE KeywordLoop(_, _, _, _, _)
KeywordLoop(idx, keys, k, isFirst, currentResults) ==
    IF k > Len(keys) THEN currentResults
    ELSE LET cleanedKey == toLower(cleanWord(keys[k]))
             next == KeywordStep(isFirst, currentResults, CategoryUnion(idx, cleanedKey))
         IN  IF next = {} THEN next
             ELSE KeywordLoop(idx, keys, k + 1, FALSE, next)

searchByKeywords(idx, keys) == KeywordLoop(idx, keys, 1, TRUE, {})

(***************************************************************************)
(* handleClient, POST: the search over the form parameters.  params holds  *)
(* the five recognized keys, an absent key reading as the empty string.    *)
(***************************************************************************)
Params(genre, year, language, keywords, sort) ==
    [genre |-> genre, year |-> year, language |-> language,
     keywords |-> keywords, sort |-> sort]

\* InitialResults as it would be with results starting from the whole collection
InitialResultsAll(mv) == {i - 1 : i \in DOMAIN mv}

\* std::unordered_set<int> results;
InitialResults(mv) == {}

\* if (results.empty()) results = r; else results = intersectResults(results, r);
Narrow(results, r) ==
    IF results = {} THEN r ELSE intersectResults(results, r)

\* std::replace(genreInput.begin(), genreInput.end(), '+', ' ')
RECURSIVE ReplacePlus(_)
ReplacePlus(str) ==
    IF str = "" THEN ""
    ELSE (IF CharAt(str, 1) = "+" THEN " " ELSE CharAt(str, 1))
            \o ReplacePlus(SubSeq(str, 2, Len(str)))

\* the loop over the words of the genre parameter
RECURSIVE GenreLoop(_, _, _)
GenreLoop(idx, words, genreResults) ==
    IF words = <<>> THEN genreResults
    ELSE GenreLoop(idx, Tail(words),
                   LET wordResults == searchByCategory(idx, "genre", Head(words))
                   IN  IF genreResults = {} THEN wordResults
                       ELSE intersectResults(genreResults, wordResults))

GenreResults(idx, genreParam) ==
    GenreLoop(idx, SplitWords(ReplacePlus(genreParam)), {})

\* the keywords of the keywords parameter: split on '+', cleaned, lowercased,
\* the empty ones dropped
RECURSIVE CleanKeywords(_)
CleanKeywords(pieces) ==
    IF pieces = <<>> THEN <<>>
    ELSE LET keyword == toLower(cleanWord(Head(pieces)))
         IN  (IF keyword # "" THEN <<keyword>> ELSE <<>>) \o CleanKeywords(Tail(pieces))

PostKeywords(keywordsParam) == CleanKeywords(SplitOn(keywordsParam, "+"))

\* the loop over the keywords, reading the map through getIndexData()
RECURSIVE PostKeywordLoop(_, _, _)
PostKeywordLoop(idx, keywords, results) ==
    IF keywords = <<>> THEN results
    ELSE PostKeywordLoop(idx, Tail(keywords),
                         Narrow(results, CategoryUnion(idx, Head(keywords))))

AfterGenre(idx, mv, params) ==
    IF params.genre # ""
    THEN Narrow(InitialResults(mv), GenreResults(idx, params.genre))
    ELSE InitialResults(mv)

AfterYear(idx, mv, params) ==
    IF params.year # ""
    THEN Narrow(AfterGenre(idx, mv, params), searchByCategory(idx, "year", params.year))
    ELSE AfterGenre(idx, mv, params)

AfterLanguage(idx, mv, params) ==
    IF params.language # ""
    THEN Narrow(AfterYear(idx, mv, params),
                searchByCategory(idx, "language", params.language))
    ELSE AfterYear(idx, mv, params)

\* results as it stands before the sort
PostResults(idx, mv, params) ==
    IF params.keywords # ""
    THEN PostKeywordLoop(idx, PostKeywords(params.keywords), AfterLanguage(idx, mv, params))
    ELSE AfterLanguage(idx, mv, params)

\* RatingLess as it would be with the two comparators exchanged
RatingLessSwapped(mv, sort, a, b) ==
    IF sort = "rating_asc"
    THEN MovieAt(mv, a).rating > MovieAt(mv, b).rating
    ELSE MovieAt(mv, a).rating < MovieAt(mv, b).rating

\* the comparators of the two std::sort calls
RatingLess(mv, sort, a, b) ==
    IF sort = "rating_asc"
    THEN MovieAt(mv, a).rating < MovieAt(mv, b).rating
    ELSE MovieAt(mv, a).rating > MovieAt(mv, b).rating

\* one insertion of std::sort on a short range: x moves left past every
\* element it compares less than
RECURSIVE Insert(_, _, _, _)
Insert(mv, sort, sorted, x) ==
    IF sorted = <<>> THEN <<x>>
    ELSE IF RatingLess(mv, sort, x, sorted[Len(sorted)])
         THEN Append(Insert(mv, sort, SubSeq(sorted, 1, Len(sorted) - 1), x),
                     sorted[Len(sorted)])
         ELSE Append(sorted, x)

RECURSIVE SortFrom(_, _, _, _)
SortFrom(mv, sort, sorted, rest) ==
    IF rest = <<>> THEN sorted
    ELSE SortFrom(mv, sort, Insert(mv, sort, sorted, Head(rest)), Tail(rest))

\* sortedResults after the if / else if on params["sort"]
SortResults(mv, sort, unsorted) ==
    IF sort = "rating_asc" \/ sort = "rating_desc"
    THEN SortFrom(mv, sort, <<>>, unsorted)
    ELSE unsorted

\* the orders in which iterating an unordered_set may yield its elements
Orders(set) ==
    {s \in [1..Cardinality(set) -> set] : \A i, j \in DOMAIN s : i # j => s[i] # s[j]}

(***************************************************************************)
(* loadMovies: the catalog file is a sequence of lines, each ended by a    *)
(* newline; a line of n characters takes n + 1 bytes.                      *)
(***************************************************************************)
\* inQuotes as the loop over the characters of a line holds it when it reads
\* character k: every quote read before has toggled it
InQuotes(line, k) ==
    Cardinality({j \in 1..(k - 1) : CharAt(line, j) = "\""}) % 2 = 1

\* a comma read outside quotes ends the current field
IsDelimiter(line, k) == CharAt(line, k) = "," /\ ~InQuotes(line, k)

\* the characters of a stretch of the line that are added to current: all
\* but the quotes
RECURSIVE Unquoted(_)
Unquoted(str) ==
    IF Len(str) = 0 THEN ""
    ELSE IF Len(str) = 1 THEN (IF str = "\"" THEN "" ELSE str)
         ELSE Unquoted(SubSeq(str, 1, Len(str) \div 2))
                \o Unquoted(SubSeq(str, (Len(str) \div 2) + 1, Len(str)))

\* the fields pushed from character k of the line on, the last one pushed
\* after the loop
RECURSIVE FieldsFrom(_, _)
FieldsFrom(line, k) ==
    IF \E d \in k..Len(line) : IsDelimiter(line, d)
    THEN LET d == CHOOSE d \in k..Len(line) :
                    /\ IsDelimiter(line, d)
                    /\ \A j \in k..(d - 1) : ~IsDelimiter(line, j)
         IN  <<Unquoted(SubSeq(line, k, d - 1))>> \o FieldsFrom(line, d + 1)
    ELSE <<Unquoted(SubSeq(line, k, Len(line)))>>

ParseFields(line) == FieldsFrom(line, 1)

\* the length of the longest prefix of s made of decimal digits
DigitPrefix(s) ==
    IF \E i \in 1..Len(s) : CharAt(s, i) \notin Chars(Digits)
    THEN (CHOOSE i \in 1..Len(s) :
            /\ CharAt(s, i) \notin Chars(Digits)
            /\ \A j \in 1..(i - 1) : CharAt(s, j) \in Chars(Digits)) - 1
    ELSE Len(s)

DigitValue(c) == (CHOOSE i \in 1..Len(Digits) : CharAt(Digits, i) = c) - 1

RECURSIVE DigitsValue(_)
DigitsValue(s) ==
    IF s = "" THEN 0
    ELSE 10 * DigitsValue(SubSeq(s, 1, Len(s) - 1)) + DigitValue(CharAt(s, Len(s)))

\* what strtol and strtof skip first, and the sign they read next
SkipSpace(s) == SubSeq(s, FindFirstNotOf(s, WhiteSpace), Len(s))

HasSign(s) == s # "" /\ CharAt(s, 1) \in {"+", "-"}

Unsigned(s) == IF HasSign(s) THEN SubSeq(s, 2, Len(s)) ELSE s

Signed(s, n) == IF HasSign(s) /\ CharAt(s, 1) = "-" THEN 0 - n ELSE n

\* std::stoi: ok is FALSE where it throws std::invalid_argument
stoi(str) ==
    LET s == SkipSpace(str)
        body == Unsigned(s)
        n == DigitPrefix(body)
    IN  [ok |-> n > 0, value |-> Signed(s, DigitsValue(SubSeq(body, 1, n)))]

\* std::stof on decimal notation, the value in tenths: ok is FALSE where it
\* throws std::invalid_argument
stof(str) ==
    LET s == SkipSpace(str)
        body == Unsigned(s)
        n == DigitPrefix(body)
        rest == SubSeq(body, n + 1, Len(body))
        frac == IF rest # "" /\ CharAt(rest, 1) = "."
                THEN SubSeq(rest, 2, 1 + DigitPrefix(SubSeq(rest, 2, Len(rest))))
                ELSE ""
        tenths == IF frac = "" THEN 0 ELSE DigitValue(CharAt(frac, 1))
    IN  [ok |-> n > 0 \/ frac # "",
         value |-> Signed(s, 10 * DigitsValue(SubSeq(body, 1, n)) + tenths)]

\* the genres of the genre-list field: split on ',', trimmed of spaces and
\* quotes, the empty ones dropped
RECURSIVE TrimGenres(_)
TrimGenres(pieces) ==
    IF pieces = <<>> THEN <<>>
    ELSE LET genre == Trim(Head(pieces), Chars(" \""))
         IN  (IF genre # "" THEN <<genre>> ELSE <<>>) \o TrimGenres(Tail(pieces))

ParseGenres(field) == TrimGenres(SplitOn(field, ","))

\* IsValid as it would be without the test of the rating
IsValidAnyRating(movie) ==
    /\ movie.title # ""
    /\ movie.overview # ""
    /\ movie.genres # <<>>
    /\ movie.year # 0

\* the validation of a parsed movie
IsValid(movie) ==
    /\ movie.title # ""
    /\ movie.overview # ""
    /\ movie.genres # <<>>
    /\ movie.year # 0
    /\ movie.rating > 0

\* the body of the loop of processChunk on one line: status "malformed" for a
\* line skipped by a continue, else the movie and whether it is retained
ParseRow(line, localSize) ==
    LET fields == ParseFields(line)
    IN  IF Len(fields) < 9 THEN [status |-> "malformed"]
        ELSE LET year == IF fields[1] = "" THEN [ok |-> TRUE, value |-> 0]
                         ELSE stoi(SubSeq(fields[1], 1, 4))
                 rating == IF fields[6] = "" THEN [ok |-> TRUE, value |-> 0]
                           ELSE stof(fields[6])
             IN  IF ~year.ok \/ ~rating.ok THEN [status |-> "malformed"]
                 ELSE LET movie == Movie(localSize, fields[2], fields[3], fields[7],
                                         ParseGenres(fields[8]), year.value,
                                         rating.value, fields[9])
                      IN  [status |-> "parsed", movie |-> movie,
                           retained |-> IsValid(movie)]

Range(seq) == {seq[i] : i \in DOMAIN seq}

EmptyChunk ==
    [movies |-> <<>>, genres |-> {}, languages |-> {}, years |-> {}, ratings |-> {},
     lines |-> {}]

\* processChunk over the lines it reads, from the k-th of them on
RECURSIVE ChunkLoop(_, _, _)
ChunkLoop(lines, k, acc) ==
    IF k > Len(lines) THEN acc
    ELSE LET row == ParseRow(lines[k], Len(acc.movies))
         IN  IF row.status = "malformed" THEN ChunkLoop(lines, k + 1, acc)
             ELSE LET withGenres == [acc EXCEPT !.genres = @ \cup Range(row.movie.genres)]
                  IN  IF row.retained
                      THEN ChunkLoop(lines, k + 1,
                              [withGenres EXCEPT
                                 !.movies = Append(@, row.movie),
                                 !.years = @ \cup {row.movie.year},
                                 !.ratings = @ \cup {row.movie.rating},
                                 !.languages = @ \cup {row.movie.language}])
                      ELSE ChunkLoop(lines, k + 1, withGenres)

\* the byte at which line k of the file starts
RECURSIVE LineStart(_, _)
LineStart(lines, k) ==
    IF k <= 1 THEN 0 ELSE LineStart(lines, k - 1) + Len(lines[k - 1]) + 1

\* fileSize: every line but an unterminated last one ends with a newline
FileSize(f) ==
    LineStart(f.lines, Len(f.lines) + 1) - (IF f.eol THEN 0 ELSE 1)

ChunkSize(f, numThreads) == FileSize(f) \div numThreads

StartPos(f, numThreads, i) == i * ChunkSize(f, numThreads)

EndPos(f, numThreads, i) ==
    IF i = numThreads - 1 THEN FileSize(f)
    ELSE StartPos(f, numThreads, i) + ChunkSize(f, numThreads)

\* inFile.tellg() after getline has read line k: the byte after its newline;
\* -1 where the line ended at the end of the file with no newline, as eofbit
\* is set and tellg fails
TellAfter(f, k) ==
    IF k = Len(f.lines) /\ ~f.eol THEN 0 - 1 ELSE LineStart(f.lines, k + 1)

\* the first line thread i reads for processing: after the seek to startPos
\* one line is skipped unless startPos is 0
ChunkFirst(f, numThreads, i) ==
    LET startPos == StartPos(f, numThreads, i)
    IN  IF startPos = 0 THEN 1
        ELSE IF \E k \in 1..Len(f.lines) : LineStart(f.lines, k) > startPos
             THEN CHOOSE k \in 1..Len(f.lines) :
                     /\ LineStart(f.lines, k) > startPos
                     /\ \A j \in 1..(k - 1) : LineStart(f.lines, j) <= startPos
             ELSE Len(f.lines) + 1

\* the first line thread i does not process: lines are read and processed
\* while the position told after the line read is at most endPos
ChunkBeyond(f, numThreads, i) ==
    LET endPos == EndPos(f, numThreads, i)
        first == ChunkFirst(f, numThreads, i)
    IN  IF \E k \in first..Len(f.lines) : TellAfter(f, k) > endPos
        THEN CHOOSE k \in first..Len(f.lines) :
                /\ TellAfter(f, k) > endPos
                /\ \A j \in first..(k - 1) : TellAfter(f, j) <= endPos
        ELSE Len(f.lines) + 1

\* the numbers, in the file, of the lines thread i processes
ChunkLineNumbers(f, numThreads, i) ==
    ChunkFirst(f, numThreads, i)..(ChunkBeyond(f, numThreads, i) - 1)

\* the lines thread i processes
ChunkLines(f, numThreads, i) ==
    SubSeq(f.lines, ChunkFirst(f, numThreads, i), ChunkBeyond(f, numThreads, i) - 1)

\* what thread i leaves: its movies and fact sets, and the lines it processed
processChunk(f, numThreads, i) ==
    [ChunkLoop(ChunkLines(f, numThreads, i), 1, EmptyChunk)
        EXCEPT !.lines = ChunkLineNumbers(f, numThreads, i)]

\* threadMovies, threadGenres, ... once every thread has been joined,
\* indexed by thread from 0
ThreadResults(f, numThreads) ==
    [i \in 0..(numThreads - 1) |-> processChunk(f, numThreads, i)]

\* lines 360-366 for one thread: its results merged into the globals
MergeThread(g, chunk) ==
    [movies |-> g.movies \o chunk.movies,
     genres |-> g.genres \cup chunk.genres,
     languages |-> g.languages \cup chunk.languages,
     years |-> g.years \cup chunk.years,
     ratings |-> g.ratings \cup chunk.ratings]

\* the merge loop from thread i on
RECURSIVE MergeFrom(_, _, _, _)
MergeFrom(g, threads, numThreads, i) ==
    IF i >= numThreads THEN g
    ELSE MergeFrom(MergeThread(g, threads[i]), threads, numThreads, i + 1)

\* movies, genres, languages, years and ratings after lines 354-366
MergedGlobals(threads, numThreads) == MergeFrom(EmptyChunk, threads, numThreads, 0)

\* size_t numThreads = 8 in main, and loadMovies(filePath, 8) in the reload thread
NumThreads == 8

(***************************************************************************)
(* Catalog files of the model.  A record line is laid out in a chunk of    *)
(* its own, after a one-byte line at the chunk's first byte and before a   *)
(* filler line that ends with the chunk, so that the eight byte ranges of  *)
(* loadMovies each hold their record whole.                                *)
(***************************************************************************)
MaxLines == 2

MaxKeywords == 2

RECURSIVE Filler(_)
Filler(n) ==
    IF n <= 0 THEN "" ELSE IF n = 1 THEN "x"
    ELSE Filler(n \div 2) \o Filler(n - (n \div 2))

RECURSIVE MaxLen(_)
MaxLen(records) ==
    IF records = <<>> THEN 0
    ELSE LET m == MaxLen(Tail(records))
         IN  IF Len(Head(records)) > m THEN Len(Head(records)) ELSE m

RECURSIVE PadFrom(_, _, _)
PadFrom(records, size, k) ==
    IF k > NumThreads THEN <<>>
    ELSE (IF k <= Len(records)
          THEN <<"", records[k], Filler(size - Len(records[k]) - 3)>>
          ELSE <<"", Filler(size - 2)>>) \o PadFrom(records, size, k + 1)

PadFile(records) == PadFrom(records, MaxLen(records) + 3, 1)

RecordPool ==
    { "2010-07-16,Up,A thief.,,,0.5,en,\"Sci Fi, Act\",u",
      "1995,Heat,Thief cops,,,7.3,EN,Act,v",
      "2010,Saw,Up heat,,,7.3,fr,War Act,w",
      "2001,Top,Best,,,10,en,Act,t",
      "1995,Max,Heat,,,12.5,fr,War,m",
      "1999,Bad,None,,,0,en,Drama,b" }

SeqsUpTo(set, n) == UNION {[1..k -> set] : k \in 0..n}

\* a file whose every line ends with a newline
Readable(lines) == [readable |-> TRUE, lines |-> lines, eol |-> TRUE]

\* a file whose last line ends with the file, with no newline
Unterminated(lines) == [readable |-> TRUE, lines |-> lines, eol |-> FALSE]

Unreadable == [readable |-> FALSE, lines |-> <<>>, eol |-> TRUE]

QueryFiles == {Readable(PadFile(records)) : records \in SeqsUpTo(RecordPool, MaxLines)}

ServerFiles ==
    { Unreadable,
      Readable(PadFile(<<"1995,Heat,Cops,,,9.3,EN,Act,v", "2010,Saw,Heat,,,10,fr,War,w">>)),
      Readable(PadFile(<<"2010,Saw,Heat,,,10,fr,War,w">>)) }

VARIABLES
    file,        \* the catalog file on disk
    movies, genres, languages, years, ratings,   \* the globals of Server.cpp
    index,       \* invertedIndex.index
    loadPc,      \* where the thread running loadMovies stands
    loadStatus,  \* how the last call of loadMovies returned
    threads,     \* threadMovies, threadGenres, ... of the running loadMovies
    loadI,       \* the loop variable i of the merge loop, then of the rebuild loop
    addKeys,     \* the keys the running addMovie has still to add
    serving,     \* the thread pool and the reload thread have been started
    req, resp,   \* the last request handled and what was computed for it
    published    \* the index as the last completed load left it

VARIABLES
    tasks,         \* ThreadPool::tasks, the queue of accepted sockets
    stop,          \* ThreadPool::stop
    workerPc,      \* where each worker thread of the pool stands
    workerSocket,  \* clientSocket of each worker
    conn,          \* the connections accepted so far, by socket
    aborted,       \* std::terminate has been called
    queuedAtStop   \* the sockets in tasks when the destructor set stop

pool == <<tasks, stop, workerPc, workerSocket, conn, aborted, queuedAtStop>>

VARIABLES
    mtx,       \* InvertedIndex::mtx: the thread that holds it, or "free"
    reading    \* a worker is in the POST keyword loop, reading getIndexData()

sync == <<mtx, reading>>

VARIABLES
    running,   \* the chunk threads of the running loadMovies not yet finished
    mainPc,    \* where the thread that enqueues and destroys the pool stands
    parser,    \* line, inQuotes, current and fields of the loop over a line
    queueMutex, \* ThreadPool::queueMutex, free or held
    reloadPc    \* where the thread of updateIndexPeriodically stands

more == <<running, mainPc, parser, queueMutex>>

globals == <<movies, genres, languages, years, ratings>>

loader == <<loadPc, loadStatus, threads, loadI, addKeys>>

vars == <<file, movies, genres, languages, years, ratings, index,
          loadPc, loadStatus, threads, loadI, addKeys, serving, req, resp, published,
          tasks, stop, workerPc, workerSocket, conn, aborted, queuedAtStop,
          mtx, reading, running, mainPc, parser,
          queueMutex, reloadPc>>

NoThreads == [i \in 0..(NumThreads - 1) |-> EmptyChunk]

NoRequest == [op |-> "none"]

\* hardware_concurrency(), the number of workers of the pool
NumWorkers == 2

Workers == 1..NumWorkers

\* ThreadPool(numThreads) before any connection is accepted
InitPool ==
    /\ tasks = <<>>
    /\ stop = FALSE
    /\ workerPc = [w \in Workers |-> "waiting"]
    /\ workerSocket = [w \in Workers |-> 0]
    /\ conn = <<>>
    /\ aborted = FALSE
    /\ queuedAtStop = {}

\* no thread holds the index mutex or reads the index
NotReading == [status |-> "no"]

InitSync == mtx = "free" /\ reading = NotReading

\* no chunk thread runs; the main thread is in its accept loop
NoParse == [status |-> "none"]

InitMore == running = {} /\ mainPc = "accept" /\ parser = NoParse
            /\ queueMutex = "free"

InitState ==
    /\ movies = <<>>
    /\ genres = {} /\ languages = {} /\ years = {} /\ ratings = {}
    /\ index = EmptyIndex
    /\ loadPc = "open"
    /\ loadStatus = "none"
    /\ threads = NoThreads
    /\ loadI = 0
    /\ addKeys = <<>>
    /\ serving = FALSE
    /\ req = NoRequest
    /\ resp = NoRequest
    /\ published = EmptyIndex
    /\ InitPool
    /\ InitSync
    /\ InitMore
    /\ reloadPc = "none"

Init == file \in ServerFiles /\ InitState

(***************************************************************************)
(* The thread that runs loadMovies: main for the first call, the reload    *)
(* thread of updateIndexPeriodically from then on.  Its steps are the      *)
(* stretches of loadMovies between two points where another thread may     *)
(* observe the globals or take the index mutex.                            *)
(***************************************************************************)
\* the call returns: main goes on to start the reload thread and the pool
Returned(status) ==
    /\ loadPc' = "idle"
    /\ loadStatus' = status
    /\ serving' = TRUE
    /\ reloadPc' = "sleep"

\* LoadCall as it would be with updateIndexPeriodically called before main's
\* own call of loadMovies
LoadCallUnstarted ==
    /\ reloadPc \in {"none", "sleep"}
    /\ reloadPc' = "load"
    /\ loadPc' = "open"
    /\ UNCHANGED <<file, globals, index, loadStatus, threads, loadI, addKeys,
                   serving, req, resp, published, pool, sync, more>>

\* the sleep of the reload thread ends and it calls loadMovies
LoadCall ==
    /\ reloadPc = "sleep"
    /\ reloadPc' = "load"
    /\ loadPc' = "open"
    /\ UNCHANGED <<file, globals, index, loadStatus, threads, loadI, addKeys,
                   serving, req, resp, published, pool, sync, more>>

\* LoadOpenFail as it would be with the globals cleared before the file is
\* tested
LoadOpenFailClears ==
    /\ loadPc = "open"
    /\ ~file.readable
    /\ Returned("error")
    /\ movies' = <<>>
    /\ genres' = {} /\ languages' = {} /\ years' = {} /\ ratings' = {}
    /\ UNCHANGED <<file, index, threads, loadI, addKeys, req, resp, published, pool, sync, more>>

\* the file cannot be opened: the error is logged and the call returns
LoadOpenFail ==
    /\ loadPc = "open"
    /\ ~file.readable
    /\ Returned("error")
    /\ UNCHANGED <<file, globals, index, threads, loadI, addKeys, req, resp, published, pool, sync, more>>

\* the file is opened, the chunk threads run and are joined
LoadParse ==
    /\ loadPc = "open"
    /\ file.readable
    /\ threads' = ThreadResults(file, NumThreads)
    /\ loadPc' = "clear"
    /\ UNCHANGED <<file, globals, index, loadStatus, loadI, addKeys, serving,
                   req, resp, published, pool, sync, more, reloadPc>>

\* movies.clear() ... ratings.clear()
LoadClear ==
    /\ loadPc = "clear"
    /\ movies' = <<>>
    /\ genres' = {} /\ languages' = {} /\ years' = {} /\ ratings' = {}
    /\ loadI' = 0
    /\ loadPc' = "merge"
    /\ UNCHANGED <<file, index, loadStatus, threads, addKeys, serving, req, resp, published, pool, sync, more,
                   reloadPc>>

\* one round of the merge loop
LoadMerge ==
    /\ loadPc = "merge"
    /\ loadI < NumThreads
    /\ LET g == MergeThread([movies |-> movies, genres |-> genres,
                             languages |-> languages, years |-> years,
                             ratings |-> ratings], threads[loadI])
       IN  /\ movies' = g.movies
           /\ genres' = g.genres
           /\ languages' = g.languages
           /\ years' = g.years
           /\ ratings' = g.ratings
    /\ loadI' = loadI + 1
    /\ UNCHANGED <<file, index, loadPc, loadStatus, threads, addKeys, serving,
                   req, resp, published, pool, sync, more, reloadPc>>

\* invertedIndex.clear(), under the index mutex
LoadClearIndex ==
    /\ loadPc = "merge"
    /\ loadI >= NumThreads
    /\ index' = EmptyIndex
    /\ loadI' = 0
    /\ addKeys' = IF movies = <<>> THEN <<>> ELSE addMovieKeys(MovieAt(movies, 0))
    /\ loadPc' = "rebuild"
    /\ UNCHANGED <<file, globals, loadStatus, threads, serving, req, resp, published, pool, sync, more,
                   reloadPc>>

\* one call of addToIndex by addMovie(i, movies[i]), under the index mutex;
\* after the last key of a movie the loop goes on to the next movie
LoadAddToIndex ==
    /\ loadPc = "rebuild"
    /\ loadI < Len(movies)
    /\ addKeys # <<>>
    /\ index' = addToIndex(index, Head(addKeys), loadI)
    /\ IF Tail(addKeys) # <<>>
       THEN addKeys' = Tail(addKeys) /\ loadI' = loadI
       ELSE /\ loadI' = loadI + 1
            /\ addKeys' = IF loadI + 1 < Len(movies)
                          THEN addMovieKeys(MovieAt(movies, loadI + 1))
                          ELSE <<>>
    /\ UNCHANGED <<file, globals, loadPc, loadStatus, threads, serving, req, resp, published, pool, sync, more,
                   reloadPc>>

\* the rebuild loop is over: the success is logged and the call returns
LoadDone ==
    /\ loadPc = "rebuild"
    /\ loadI >= Len(movies)
    /\ Returned("ok")
    /\ published' = index
    /\ UNCHANGED <<file, globals, index, threads, loadI, addKeys, req, resp, pool, sync, more>>

\* the catalog file is replaced, or becomes unreadable
ChangeFile ==
    /\ file' \in ServerFiles \ {file}
    /\ UNCHANGED <<globals, index, loader, serving, req, resp, published, pool, sync, more,
                   reloadPc>>

(***************************************************************************)
(* handleClient, SEARCH: the text after the command word is split on       *)
(* whitespace, cleaned and lowercased, and searchByKeywords runs on the     *)
(* keywords under the index mutex.                                          *)
(***************************************************************************)
SearchKeywords(text) == CleanKeywords(SplitWords(text))

SearchTexts == {"heat", "saw War", "Heat! 9", "zzz"}

HandleSearch ==
    /\ serving
    /\ req = NoRequest
    /\ \E text \in SearchTexts :
          /\ req' = [op |-> "SEARCH", text |-> text]
          /\ resp' = [op |-> "SEARCH",
                      results |-> searchByKeywords(index, SearchKeywords(text))]
    /\ UNCHANGED <<file, globals, index, loader, serving, published, pool, sync, more,
                   reloadPc>>

\* the response is sent, the socket closed, and the worker is free again
CloseConnection ==
    /\ req # NoRequest
    /\ req' = NoRequest
    /\ resp' = NoRequest
    /\ UNCHANGED <<file, globals, index, loader, serving, published, pool, sync, more,
                   reloadPc>>

Next ==
    \/ LoadCall
    \/ LoadOpenFail
    \/ LoadParse
    \/ LoadClear
    \/ LoadMerge
    \/ LoadClearIndex
    \/ LoadAddToIndex
    \/ LoadDone
    \/ ChangeFile
    \/ HandleSearch
    \/ CloseConnection

Spec == Init /\ [][Next]_vars

\* sleep_for returns: the reload thread, once asleep, calls loadMovies again
SpecReload == Spec /\ WF_vars(LoadCall)

(***************************************************************************)
(* The sequential program: main's first call of loadMovies, which runs     *)
(* before the reload thread and the pool exist, then requests handled one  *)
(* at a time with no reload in progress.                                   *)
(***************************************************************************)
InitQuery == file \in QueryFiles /\ InitState

\* loadMovies from its first line to its return
InitialLoad ==
    /\ loadPc = "open"
    /\ ~serving
    /\ IF ~file.readable
       THEN /\ Returned("error")
            /\ UNCHANGED <<globals, index, threads, published>>
       ELSE /\ threads' = ThreadResults(file, NumThreads)
            /\ \E g \in {MergedGlobals(threads', NumThreads)} :
                  /\ movies' = g.movies
                  /\ genres' = g.genres
                  /\ languages' = g.languages
                  /\ years' = g.years
                  /\ ratings' = g.ratings
            /\ index' = RebuildIndex(movies')
            /\ published' = index'
            /\ Returned("ok")
    /\ UNCHANGED <<file, loadI, addKeys, req, resp, pool, sync, more>>

GenreInputs == {"", "Act", "Sci+Fi", "Zzz+Act"}

YearInputs == {"", "2010", "1995"}

LanguageInputs == {"", "en", "FR"}

SortInputs == {"", "rating_asc", "rating_desc"}

KeywordPool == {"thief", "Heat!", "2010"}

\* the keywords joined as the form posts them
RECURSIVE JoinPlus(_)
JoinPlus(keys) ==
    IF keys = <<>> THEN ""
    ELSE IF Len(keys) = 1 THEN keys[1]
         ELSE (keys[1] \o "+") \o JoinPlus(Tail(keys))

KeywordLists == SeqsUpTo(KeywordPool, MaxKeywords)

PostInputs ==
    {Params(g, y, l, JoinPlus(k), s) :
        g \in GenreInputs, y \in YearInputs, l \in LanguageInputs,
        k \in KeywordLists, s \in SortInputs}

\* handleClient on a POST request: the search, then the copy of results into
\* sortedResults in the order the set yields them, and the sort
HandlePost ==
    /\ serving
    /\ loadPc = "idle"
    /\ req = NoRequest
    /\ \E params \in PostInputs :
          LET results == PostResults(index, movies, params)
          IN  \E order \in Orders(results) :
                 /\ req' = [op |-> "POST", params |-> params]
                 /\ resp' = [op |-> "POST", results |-> results,
                             sortedResults |-> SortResults(movies, params.sort, order)]
    /\ UNCHANGED <<file, globals, index, loader, serving, published, pool, sync, more,
                   reloadPc>>

\* a call of searchByKeywords
CallSearchByKeywords ==
    /\ serving
    /\ loadPc = "idle"
    /\ req = NoRequest
    /\ \E keys \in KeywordLists :
          /\ req' = [op |-> "searchByKeywords", keys |-> keys]
          /\ resp' = [op |-> "searchByKeywords",
                      results |-> searchByKeywords(index, keys)]
    /\ UNCHANGED <<file, globals, index, loader, serving, published, pool, sync, more,
                   reloadPc>>

\* the values looked up: the year, the language and the genre words of the
\* items of the collection, and the rating buckets
LookupInputs ==
    UNION {{<<"year", to_string(movies[i].year)>>, <<"language", movies[i].language>>}
           \cup {<<"genre", w>> : w \in Range(GenreWords(movies[i].genres))}
           : i \in DOMAIN movies}
    \cup {<<"rating", to_string(k)>> : k \in 0..10}
    \cup {<<"genre", "ACT">>, <<"year", "1999">>}

\* a call of searchByCategory
CallSearchByCategory ==
    /\ serving
    /\ loadPc = "idle"
    /\ req = NoRequest
    /\ \E lookup \in LookupInputs :
          /\ req' = [op |-> "searchByCategory", category |-> lookup[1],
                     value |-> lookup[2]]
          /\ resp' = [op |-> "searchByCategory",
                      results |-> searchByCategory(index, lookup[1], lookup[2])]
    /\ UNCHANGED <<file, globals, index, loader, serving, published, pool, sync, more,
                   reloadPc>>

NextQuery ==
    \/ InitialLoad
    \/ HandlePost
    \/ CallSearchByKeywords
    \/ CallSearchByCategory
    \/ CloseConnection

SpecQuery == InitQuery /\ [][NextQuery]_vars

(***************************************************************************)
(* loadMovies on catalog files with malformed and invalid rows.            *)
(***************************************************************************)
LoadRecordPool ==
    { "1995,Heat,Thief cops,,,7.3,EN,Act,v",
      "2010-07-16,Up,A thief.,,,0.5,en,\"Sci Fi, Act\",u",
      "1995,Cut,Short row,,,7.3,en,Act",
      "abcd,Nan,Bad year,,,7.3,en,Act,n",
      "1995,Rat,Bad rating,,,n/a,en,Act,r",
      "1995,,No title,,,7.3,en,Act,e",
      "1995,Nov,,,,7.3,en,Act,o",
      "1995,Gen,No genre,,,7.3,en,\" , \",g",
      ",Yea,No year,,,7.3,en,Act,y",
      "1999,Bad,None,,,0,de,Drama,b" }

LoadFiles ==
    {Unreadable}
    \cup {Readable(PadFile(records)) : records \in SeqsUpTo(LoadRecordPool, MaxLines)}

InitLoad == file \in LoadFiles /\ InitState

NextLoad == InitialLoad

SpecLoad == InitLoad /\ [][NextLoad]_vars

(***************************************************************************)
(* The chunk ranges of loadMovies(filePath, numThreads) on files given by  *)
(* the lengths of their lines, for every number of chunk threads.          *)
(***************************************************************************)
MaxLineLen == 3

MaxFileLines == 4

MaxThreads == 4

LinesOf(lens) == [k \in DOMAIN lens |-> Filler(lens[k])]

ChunkFiles ==
    {Readable(LinesOf(lens)) : lens \in SeqsUpTo(0..MaxLineLen, MaxFileLines)}
    \cup {Unterminated(LinesOf(lens)) :
             lens \in {l \in SeqsUpTo(0..MaxLineLen, MaxFileLines) :
                          l # <<>> /\ l[Len(l)] > 0}}

InitChunk == file \in ChunkFiles /\ InitState

\* loadMovies(filePath, numThreads) up to the join of its chunk threads
LoadParseWith(numThreads) ==
    /\ loadPc = "open"
    /\ file.readable
    /\ threads' = ThreadResults(file, numThreads)
    /\ loadPc' = "clear"
    /\ UNCHANGED <<file, globals, index, loadStatus, loadI, addKeys, serving,
                   req, resp, published, pool, sync, more, reloadPc>>

NextChunk == \E numThreads \in 1..MaxThreads : LoadParseWith(numThreads)

SpecChunk == InitChunk /\ [][NextChunk]_vars

(***************************************************************************)
(* The thread pool and handleClient on raw request contents.  The accept   *)
(* loop of main enqueues sockets, numbered in the order accept returns     *)
(* them; each worker dequeues a socket and runs handleClient on it.  The   *)
(* catalog is the one main loaded before it created the pool.              *)
(***************************************************************************)
\* std::string::npos, the size_t 2^64 - 1, held as its residue -1 modulo
\* 2^64: npos + 1 is 0 and npos + 4 is 3, as in the size_t arithmetic
npos == 0 - 1

\* str.find(pat): the position, from 0, of the first occurrence, else npos
find(str, pat) ==
    LET hits == {i \in 1..(Len(str) - Len(pat) + 1) :
                    SubSeq(str, i, i + Len(pat) - 1) = pat}
    IN  IF hits = {} THEN npos
        ELSE (CHOOSE i \in hits : \A j \in hits : i <= j) - 1

\* str.substr(pos) where pos <= str.size(); it throws std::out_of_range
\* where pos > str.size()
substr(str, pos) == SubSeq(str, pos + 1, Len(str))

substrThrows(str, pos) == pos > Len(str)

\* params[pair.substr(0, eqPos)] = pair.substr(eqPos + 1) for the pairs of
\* the body from the k-th on
RECURSIVE ParsePairs(_, _, _)
ParsePairs(pairs, k, params) ==
    IF k > Len(pairs) THEN params
    ELSE LET eqPos == find(pairs[k], "=")
             key == IF eqPos = npos THEN pairs[k] ELSE SubSeq(pairs[k], 1, eqPos)
             value == substr(pairs[k], eqPos + 1)
         IN  ParsePairs(pairs, k + 1,
                        [x \in DOMAIN params \cup {key} |->
                            IF x = key THEN value ELSE params[x]])

\* params[key] as the handler reads it: empty where the body has no such key
Param(params, key) == IF key \in DOMAIN params THEN params[key] ELSE ""

\* the body of a POST request and the parameters read from it
PostBody(request) == substr(request, find(request, "\r\n\r\n") + 4)

PostParams(request) ==
    LET params == ParsePairs(SplitOn(PostBody(request), "&"), 1, <<>>)
    IN  Params(Param(params, "genre"), Param(params, "year"),
               Param(params, "language"), Param(params, "keywords"),
               Param(params, "sort"))

\* the three tests of handleClient on the request
HasGet(request) == find(request, "GET") # npos

HasPost(request) == find(request, "POST") # npos

IsSearch(request) == find(request, "SEARCH") = 0

\* the result set of the POST block, empty where the block is not entered
PostBlockResults(idx, mv, request) ==
    IF HasPost(request) THEN PostResults(idx, mv, PostParams(request)) ELSE {}

\* what handleClient sends on the socket, in order, for a non-empty request;
\* order is the order in which the POST result set yields its elements
Responses(idx, mv, request, order) ==
    (IF HasGet(request) THEN <<[kind |-> "form"]>> ELSE <<>>)
    \o (IF HasPost(request)
        THEN <<[kind |-> "listing",
                results |-> SortResults(mv, PostParams(request).sort, order)]>>
        ELSE <<>>)
    \o (IF IsSearch(request) /\ ~substrThrows(request, 7)
        THEN <<[kind |-> "text",
                results |-> searchByKeywords(idx, SearchKeywords(substr(request, 7)))]>>
        ELSE <<>>)

\* request.substr(7) throws: the exception leaves handleClient and the
\* worker's thread function, and std::terminate ends the process
Throws(request) == IsSearch(request) /\ substrThrows(request, 7)

\* the connections the model accepts
MaxConnections == 3

\* what recv yields; the empty string stands for bytesReceived <= 0
RequestPool ==
    { "",
      "GET / HTTP/1.1",
      "hello",
      "FORGET heat",
      "SEARCH heat",
      "SEARCH",
      "SEARCH GET",
      "POST /s HTTP/1.1\r\n\r\nkeywords=heat",
      "POST /s HTTP/1.1",
      "POST /s HTTP/1.1\r\n\r\nyear=2010&sort=rating_desc" }

PoolFile ==
    Readable(PadFile(<<"1995,Heat,Cops,,,9.3,EN,Act,v", "2010,Saw,Heat,,,10,fr,War,w">>))

\* main has loaded the catalog and constructed the pool
InitServing ==
    /\ file = PoolFile
    /\ threads = ThreadResults(file, NumThreads)
    /\ \E g \in {MergedGlobals(threads, NumThreads)} :
          /\ movies = g.movies
          /\ genres = g.genres
          /\ languages = g.languages
          /\ years = g.years
          /\ ratings = g.ratings
    /\ index = RebuildIndex(movies)
    /\ published = index
    /\ loadPc = "idle"
    /\ loadStatus = "ok"
    /\ loadI = 0
    /\ addKeys = <<>>
    /\ serving = TRUE
    /\ req = NoRequest
    /\ resp = NoRequest
    /\ InitPool
    /\ InitSync
    /\ InitMore
    /\ reloadPc = "sleep"

catalog == <<file, movies, genres, languages, years, ratings, index,
             loadPc, loadStatus, threads, loadI, addKeys, serving, published>>

\* accept returns a socket and pool.enqueue pushes it on the queue
enqueue ==
    /\ ~aborted
    /\ ~stop
    /\ Len(conn) < MaxConnections
    /\ conn' = Append(conn, [state |-> "queued", sent |-> 0, closes |-> 0])
    /\ tasks' = Append(tasks, Len(conn) + 1)
    /\ UNCHANGED <<catalog, req, resp, stop, workerPc, workerSocket, aborted,
                   queuedAtStop, sync, more, reloadPc>>

\* WorkerDequeue as it would be with tasks.back() taken
WorkerDequeueBack(w) ==
    /\ ~aborted
    /\ workerPc[w] = "waiting"
    /\ tasks # <<>>
    /\ workerSocket' = [workerSocket EXCEPT ![w] = tasks[Len(tasks)]]
    /\ tasks' = SubSeq(tasks, 1, Len(tasks) - 1)
    /\ conn' = [conn EXCEPT ![tasks[Len(tasks)]].state = "dequeued"]
    /\ workerPc' = [workerPc EXCEPT ![w] = "handling"]
    /\ UNCHANGED <<catalog, req, resp, stop, aborted, queuedAtStop, sync, more, reloadPc>>

\* a waiting worker finds the queue non-empty: tasks.front(), tasks.pop()
WorkerDequeue(w) ==
    /\ ~aborted
    /\ workerPc[w] = "waiting"
    /\ tasks # <<>>
    /\ workerSocket' = [workerSocket EXCEPT ![w] = Head(tasks)]
    /\ tasks' = Tail(tasks)
    /\ conn' = [conn EXCEPT ![Head(tasks)].state = "dequeued"]
    /\ workerPc' = [workerPc EXCEPT ![w] = "handling"]
    /\ UNCHANGED <<catalog, req, resp, stop, aborted, queuedAtStop, sync, more, reloadPc>>

\* WorkerExit as it would be with the test if (stop) return
WorkerExitOnStop(w) ==
    /\ ~aborted
    /\ workerPc[w] = "waiting"
    /\ stop
    /\ workerPc' = [workerPc EXCEPT ![w] = "exited"]
    /\ UNCHANGED <<catalog, req, resp, tasks, stop, workerSocket, conn, aborted,
                   queuedAtStop, sync, more, reloadPc>>

\* a waiting worker finds stop set and the queue empty, and returns
WorkerExit(w) ==
    /\ ~aborted
    /\ workerPc[w] = "waiting"
    /\ stop /\ tasks = <<>>
    /\ workerPc' = [workerPc EXCEPT ![w] = "exited"]
    /\ UNCHANGED <<catalog, req, resp, tasks, stop, workerSocket, conn, aborted,
                   queuedAtStop, sync, more, reloadPc>>

\* handleClient(clientSocket) by worker w, from recv to its return or to the
\* exception that leaves it
handleClient(w) ==
    /\ ~aborted
    /\ workerPc[w] = "handling"
    /\ \E request \in RequestPool :
          /\ req' = [op |-> "handleClient", request |-> request]
          /\ IF request = ""
             THEN /\ resp' = [op |-> "handleClient", responses |-> <<>>]
                  /\ conn' = [conn EXCEPT ![workerSocket[w]].state = "closed",
                                           ![workerSocket[w]].closes = @ + 1]
                  /\ workerPc' = [workerPc EXCEPT ![w] = "waiting"]
                  /\ UNCHANGED aborted
             ELSE \E order \in Orders(PostBlockResults(index, movies, request)) :
                     /\ resp' = [op |-> "handleClient",
                                 responses |-> Responses(index, movies, request, order)]
                     /\ IF Throws(request)
                        THEN /\ conn' = [conn EXCEPT
                                           ![workerSocket[w]].sent = Len(resp'.responses)]
                             /\ workerPc' = [workerPc EXCEPT ![w] = "terminated"]
                             /\ aborted' = TRUE
                        ELSE /\ conn' = [conn EXCEPT
                                           ![workerSocket[w]].sent = Len(resp'.responses),
                                           ![workerSocket[w]].state = "closed",
                                           ![workerSocket[w]].closes = @ + 1]
                             /\ workerPc' = [workerPc EXCEPT ![w] = "waiting"]
                             /\ UNCHANGED aborted
    /\ UNCHANGED <<catalog, tasks, stop, workerSocket, queuedAtStop, sync, more, reloadPc>>

\* ~ThreadPool() sets stop under the queue mutex and wakes the workers
Destructor ==
    /\ ~aborted
    /\ ~stop
    /\ stop' = TRUE
    /\ queuedAtStop' = Range(tasks)
    /\ UNCHANGED <<catalog, req, resp, tasks, workerPc, workerSocket, conn, aborted, sync, more,
                   reloadPc>>

NextPool ==
    \/ enqueue
    \/ \E w \in Workers : WorkerDequeue(w)
    \/ \E w \in Workers : WorkerExit(w)
    \/ \E w \in Workers : handleClient(w)
    \/ Destructor

SpecPool == InitServing /\ [][NextPool]_vars

(***************************************************************************)
(* The pool with its mutex and its condition variable.  A worker at the    *)
(* top of its loop ("waiting") locks queueMutex and tests the predicate of *)
(* cv.wait ("test"); with the predicate false it releases the mutex and    *)
(* blocks in one step ("blocked") until a notification or a spurious       *)
(* wakeup ("woken"), locks again and tests again.  enqueue and the         *)
(* destructor run on one thread, whose position is mainPc.                 *)
(***************************************************************************)
Blocked == {w \in Workers : workerPc[w] = "blocked"}

\* std::unique_lock lock(queueMutex), or the lock taken again inside cv.wait
WorkerLock(w) ==
    /\ workerPc[w] \in {"waiting", "woken"}
    /\ queueMutex = "free"
    /\ queueMutex' = "held"
    /\ workerPc' = [workerPc EXCEPT ![w] = "test"]
    /\ UNCHANGED <<catalog, req, resp, tasks, stop, workerSocket, conn, aborted,
                   queuedAtStop, sync, running, mainPc, parser, reloadPc>>

\* WorkerWait as it would be with the worker blocked before the predicate is
\* tested again: cv.wait(lock) without the predicate
WorkerWaitBlind(w) ==
    /\ workerPc[w] = "test"
    /\ ~stop
    /\ queueMutex' = "free"
    /\ workerPc' = [workerPc EXCEPT ![w] = "blocked"]
    /\ UNCHANGED <<catalog, req, resp, tasks, stop, workerSocket, conn, aborted,
                   queuedAtStop, sync, running, mainPc, parser, reloadPc>>

\* the predicate stop || !tasks.empty() is false: cv.wait releases the mutex
\* and blocks the worker
WorkerWait(w) ==
    /\ workerPc[w] = "test"
    /\ ~(stop \/ tasks # <<>>)
    /\ queueMutex' = "free"
    /\ workerPc' = [workerPc EXCEPT ![w] = "blocked"]
    /\ UNCHANGED <<catalog, req, resp, tasks, stop, workerSocket, conn, aborted,
                   queuedAtStop, sync, running, mainPc, parser, reloadPc>>

\* the wait is over with stop set and the queue empty: the worker returns
WorkerLeave(w) ==
    /\ workerPc[w] = "test"
    /\ stop /\ tasks = <<>>
    /\ queueMutex' = "free"
    /\ workerPc' = [workerPc EXCEPT ![w] = "exited"]
    /\ UNCHANGED <<catalog, req, resp, tasks, stop, workerSocket, conn, aborted,
                   queuedAtStop, sync, running, mainPc, parser, reloadPc>>

\* the wait is over with the queue non-empty: tasks.front(), tasks.pop(),
\* and the lock is released at the end of the block
WorkerTake(w) ==
    /\ workerPc[w] = "test"
    /\ tasks # <<>>
    /\ workerSocket' = [workerSocket EXCEPT ![w] = Head(tasks)]
    /\ tasks' = Tail(tasks)
    /\ conn' = [conn EXCEPT ![Head(tasks)].state = "dequeued"]
    /\ queueMutex' = "free"
    /\ workerPc' = [workerPc EXCEPT ![w] = "handling"]
    /\ UNCHANGED <<catalog, req, resp, stop, aborted, queuedAtStop, sync,
                   running, mainPc, parser, reloadPc>>

\* a blocked worker wakes with no notification, as cv.wait allows
SpuriousWakeup(w) ==
    /\ workerPc[w] = "blocked"
    /\ workerPc' = [workerPc EXCEPT ![w] = "woken"]
    /\ UNCHANGED <<catalog, req, resp, tasks, stop, workerSocket, conn, aborted,
                   queuedAtStop, sync, more, reloadPc>>

\* the requests read from the connections of this pool
WaitRequests == {"GET / HTTP/1.1", "SEARCH heat"}

\* handleClient(clientSocket) in a run in which it returns
handleClientReturns(w) ==
    handleClient(w) /\ req'.request \in WaitRequests /\ ~aborted'

\* accept has returned a socket and main calls pool.enqueue(clientSocket)
EnqueueCall ==
    /\ mainPc = "accept"
    /\ Len(conn) < MaxConnections
    /\ conn' = Append(conn, [state |-> "accepted", sent |-> 0, closes |-> 0])
    /\ mainPc' = "enqueue"
    /\ UNCHANGED <<catalog, req, resp, tasks, stop, workerPc, workerSocket, aborted,
                   queuedAtStop, sync, running, parser, queueMutex, reloadPc>>

\* std::lock_guard lock(queueMutex) in enqueue
EnqueueLock ==
    /\ mainPc = "enqueue"
    /\ queueMutex = "free"
    /\ queueMutex' = "held"
    /\ mainPc' = "push"
    /\ UNCHANGED <<catalog, req, resp, tasks, stop, workerPc, workerSocket, conn,
                   aborted, queuedAtStop, sync, running, parser, reloadPc>>

\* tasks.push(clientSocket) and the end of the block
EnqueuePush ==
    /\ mainPc = "push"
    /\ tasks' = Append(tasks, Len(conn))
    /\ conn' = [conn EXCEPT ![Len(conn)].state = "queued"]
    /\ queueMutex' = "free"
    /\ mainPc' = "notify"
    /\ UNCHANGED <<catalog, req, resp, stop, workerPc, workerSocket, aborted,
                   queuedAtStop, sync, running, parser, reloadPc>>

\* cv.notify_one(): one of the workers blocked in cv.wait, if there is one,
\* is woken
EnqueueNotify ==
    /\ mainPc = "notify"
    /\ IF Blocked = {}
       THEN UNCHANGED workerPc
       ELSE \E w \in Blocked : workerPc' = [workerPc EXCEPT ![w] = "woken"]
    /\ mainPc' = "accept"
    /\ UNCHANGED <<catalog, req, resp, tasks, stop, workerSocket, conn, aborted,
                   queuedAtStop, sync, running, parser, queueMutex, reloadPc>>

\* ~ThreadPool() is called
DestructorCall ==
    /\ mainPc = "accept"
    /\ mainPc' = "destroy"
    /\ UNCHANGED <<catalog, req, resp, pool, sync, running, parser, queueMutex, reloadPc>>

\* std::lock_guard lock(queueMutex) in the destructor
DestructorLock ==
    /\ mainPc = "destroy"
    /\ queueMutex = "free"
    /\ queueMutex' = "held"
    /\ mainPc' = "stop"
    /\ UNCHANGED <<catalog, req, resp, pool, sync, running, parser, reloadPc>>

\* stop = true and the end of the block
DestructorStop ==
    /\ mainPc = "stop"
    /\ stop' = TRUE
    /\ queuedAtStop' = Range(tasks)
    /\ queueMutex' = "free"
    /\ mainPc' = "notify_all"
    /\ UNCHANGED <<catalog, req, resp, tasks, workerPc, workerSocket, conn, aborted,
                   sync, running, parser, reloadPc>>

\* DestructorNotifyAll as it would be without cv.notify_all()
DestructorNotifyNone ==
    /\ mainPc = "notify_all"
    /\ mainPc' = "join"
    /\ UNCHANGED <<catalog, req, resp, pool, sync, running, parser, queueMutex, reloadPc>>

\* cv.notify_all(): every worker blocked in cv.wait is woken
DestructorNotifyAll ==
    /\ mainPc = "notify_all"
    /\ workerPc' = [w \in Workers |->
                       IF workerPc[w] = "blocked" THEN "woken" ELSE workerPc[w]]
    /\ mainPc' = "join"
    /\ UNCHANGED <<catalog, req, resp, tasks, stop, workerSocket, conn, aborted,
                   queuedAtStop, sync, running, parser, queueMutex, reloadPc>>

\* worker.join() has returned for every worker
DestructorJoin ==
    /\ mainPc = "join"
    /\ \A w \in Workers : workerPc[w] = "exited"
    /\ mainPc' = "joined"
    /\ UNCHANGED <<catalog, req, resp, pool, sync, running, parser, queueMutex, reloadPc>>

NextWait ==
    \/ \E w \in Workers : WorkerLock(w)
    \/ \E w \in Workers : WorkerWait(w)
    \/ \E w \in Workers : WorkerLeave(w)
    \/ \E w \in Workers : WorkerTake(w)
    \/ \E w \in Workers : SpuriousWakeup(w)
    \/ \E w \in Workers : handleClientReturns(w)
    \/ EnqueueCall
    \/ EnqueueLock
    \/ EnqueuePush
    \/ EnqueueNotify
    \/ DestructorCall
    \/ DestructorLock
    \/ DestructorStop
    \/ DestructorNotifyAll
    \/ DestructorJoin

SpecWait == InitServing /\ [][NextWait]_vars

\* fair scheduling: a thread that can take a step takes it, and a thread that
\* can again and again lock the mutex locks it; accept may never return, the
\* destructor may never be called, and no wakeup is owed but to a notification
FairWait ==
    /\ \A w \in Workers :
          /\ SF_vars(WorkerLock(w))
          /\ WF_vars(WorkerWait(w))
          /\ WF_vars(WorkerLeave(w))
          /\ WF_vars(WorkerTake(w))
          /\ WF_vars(handleClientReturns(w))
    /\ SF_vars(EnqueueLock)
    /\ WF_vars(EnqueuePush)
    /\ WF_vars(EnqueueNotify)
    /\ SF_vars(DestructorLock)
    /\ WF_vars(DestructorStop)
    /\ WF_vars(DestructorNotifyAll)
    /\ WF_vars(DestructorJoin)

SpecWaitFair == SpecWait /\ FairWait

(***************************************************************************)
(* The index mutex.  The reload thread rebuilds the index through clear()  *)
(* and addToIndex(), which take the mutex; a worker runs searchByKeywords  *)
(* under the mutex for a SEARCH, and for the keywords of a POST reads the  *)
(* map through getIndexData(), which takes no mutex.                       *)
(***************************************************************************)
\* std::lock_guard lock(mtx) in clear() or in addToIndex(): the reload thread
\* takes the mutex; a read of the map in progress now overlaps a mutation
IndexLock ==
    /\ mtx = "free"
    /\ \/ loadPc = "merge" /\ loadI >= NumThreads
       \/ loadPc = "rebuild" /\ loadI < Len(movies) /\ addKeys # <<>>
    /\ mtx' = "loader"
    /\ reading' = IF reading.status = "clean"
                  THEN [reading EXCEPT !.status = "raced"]
                  ELSE reading
    /\ UNCHANGED <<catalog, req, resp, pool, more, reloadPc>>

\* index.clear() and the release of the mutex
LockedClear ==
    /\ mtx = "loader"
    /\ loadPc = "merge"
    /\ index' = EmptyIndex
    /\ loadI' = 0
    /\ addKeys' = IF movies = <<>> THEN <<>> ELSE addMovieKeys(MovieAt(movies, 0))
    /\ loadPc' = "rebuild"
    /\ mtx' = "free"
    /\ UNCHANGED <<file, globals, loadStatus, threads, serving, req, resp, published,
                   pool, reading, more, reloadPc>>

\* index[key].insert(movieId) and the release of the mutex
LockedAddToIndex ==
    /\ mtx = "loader"
    /\ loadPc = "rebuild"
    /\ index' = addToIndex(index, Head(addKeys), loadI)
    /\ IF Tail(addKeys) # <<>>
       THEN addKeys' = Tail(addKeys) /\ loadI' = loadI
       ELSE /\ loadI' = loadI + 1
            /\ addKeys' = IF loadI + 1 < Len(movies)
                          THEN addMovieKeys(MovieAt(movies, loadI + 1))
                          ELSE <<>>
    /\ mtx' = "free"
    /\ UNCHANGED <<file, globals, loadPc, loadStatus, threads, serving, req, resp,
                   published, pool, reading, more, reloadPc>>

\* std::lock_guard lock(mtx) in searchByKeywords, called for a SEARCH
SearchLock ==
    /\ serving
    /\ mtx = "free"
    /\ mtx' = "worker"
    /\ UNCHANGED <<catalog, req, resp, pool, reading, more, reloadPc>>

\* searchByKeywords runs and returns, releasing the mutex
SearchUnlock ==
    /\ mtx = "worker"
    /\ \E text \in SearchTexts :
          /\ req' = [op |-> "SEARCH", text |-> text]
          /\ resp' = [op |-> "SEARCH",
                      results |-> searchByKeywords(index, SearchKeywords(text))]
    /\ mtx' = "free"
    /\ UNCHANGED <<catalog, pool, reading, more, reloadPc>>

PostKeywordInputs == {"heat", "saw+war"}

\* a worker handling a POST enters the keyword loop and starts reading the
\* map through getIndexData(); it takes no mutex
PostKeywordsBegin ==
    /\ serving
    /\ reading = NotReading
    /\ \E keywords \in PostKeywordInputs :
          reading' = [status |-> IF mtx = "loader" THEN "raced" ELSE "clean",
                      params |-> Params("", "", "", keywords, "")]
    /\ UNCHANGED <<catalog, pool, req, resp, mtx, more, reloadPc>>

\* what the keyword loop may leave when a mutation overlapped its reads: the
\* behaviour is undefined, any result set or the end of the process
RacedOutcomes ==
    {[op |-> "POST", results |-> r, crashed |-> FALSE] :
        r \in SUBSET (UNION {published[k] : k \in DOMAIN published}
                      \cup UNION {index[k] : k \in DOMAIN index})}
    \cup {[op |-> "POST", results |-> {}, crashed |-> TRUE]}

\* the keyword loop ends
PostKeywordsEnd ==
    /\ reading # NotReading
    /\ reading' = NotReading
    /\ req' = [op |-> "POST", params |-> reading.params]
    /\ IF reading.status = "clean"
       THEN resp' = [op |-> "POST",
                     results |-> PostResults(index, movies, reading.params),
                     crashed |-> FALSE]
       ELSE resp' \in RacedOutcomes
    /\ UNCHANGED <<catalog, pool, mtx, more, reloadPc>>

NextIndex ==
    \/ LoadCall
    \/ LoadParse
    \/ LoadClear
    \/ LoadMerge
    \/ IndexLock
    \/ LockedClear
    \/ LockedAddToIndex
    \/ LoadDone
    \/ SearchLock
    \/ SearchUnlock
    \/ PostKeywordsBegin
    \/ PostKeywordsEnd

SpecIndex == InitServing /\ [][NextIndex]_vars

(***************************************************************************)
(* loadMovies with its chunk threads as threads of their own: each runs    *)
(* processChunk on its byte range and writes its own element of the        *)
(* per-thread vectors; loadMovies joins them all before it merges.         *)
(***************************************************************************)
InitBarrier == file = PoolFile /\ InitState

\* the per-thread vectors are constructed and the chunk threads launched
LoadLaunch ==
    /\ loadPc = "open"
    /\ file.readable
    /\ threads' = NoThreads
    /\ running' = 0..(NumThreads - 1)
    /\ loadPc' = "chunks"
    /\ UNCHANGED <<file, globals, index, loadStatus, loadI, addKeys, serving,
                   req, resp, published, pool, sync, mainPc, parser, queueMutex, reloadPc>>

\* chunk thread i runs processChunk to its end
ChunkRun(i) ==
    /\ i \in running
    /\ threads' = [threads EXCEPT ![i] = processChunk(file, NumThreads, i)]
    /\ running' = running \ {i}
    /\ UNCHANGED <<file, globals, index, loadPc, loadStatus, loadI, addKeys, serving,
                   req, resp, published, pool, sync, mainPc, parser, queueMutex, reloadPc>>

\* LoadJoin as it would be without the loop of joins
LoadJoinNone ==
    /\ loadPc = "chunks"
    /\ loadPc' = "clear"
    /\ UNCHANGED <<file, globals, index, loadStatus, threads, loadI, addKeys, serving,
                   req, resp, published, pool, sync, more, reloadPc>>

\* thread.join() has returned for every chunk thread
LoadJoin ==
    /\ loadPc = "chunks"
    /\ running = {}
    /\ loadPc' = "clear"
    /\ UNCHANGED <<file, globals, index, loadStatus, threads, loadI, addKeys, serving,
                   req, resp, published, pool, sync, more, reloadPc>>

NextBarrier ==
    \/ LoadCall
    \/ LoadLaunch
    \/ \E i \in 0..(NumThreads - 1) : ChunkRun(i)
    \/ LoadJoin
    \/ LoadClear
    \/ LoadMerge
    \/ LoadClearIndex
    \/ LoadAddToIndex
    \/ LoadDone

SpecBarrier == InitBarrier /\ [][NextBarrier]_vars

(***************************************************************************)
(* The split of one line into fields, character by character, as the loop  *)
(* of processChunk runs it.                                                *)
(***************************************************************************)
MaxParseLen == 5

ParseAlphabet == {"a", ",", "\""}

RECURSIVE StringsOfLen(_)
StringsOfLen(n) ==
    IF n = 0 THEN {""}
    ELSE {str \o c : str \in StringsOfLen(n - 1), c \in ParseAlphabet}

ParseLines == UNION {StringsOfLen(n) : n \in 0..MaxParseLen}

InitParse == file = PoolFile /\ InitState

\* getline has read a line; fields, current and inQuotes are constructed
ParseBegin ==
    /\ parser = NoParse
    /\ \E line \in ParseLines :
          parser' = [status |-> "loop", line |-> line, k |-> 1, inQuotes |-> FALSE,
                     current |-> "", fields |-> <<>>]
    /\ UNCHANGED <<file, globals, index, loader, serving, req, resp, published,
                   pool, sync, running, mainPc, queueMutex, reloadPc>>

\* ParseChar as it would be with every comma ending the current field
ParseCharSplits ==
    /\ parser.status = "loop"
    /\ parser.k <= Len(parser.line)
    /\ LET c == CharAt(parser.line, parser.k)
       IN  parser' =
              IF c = "\""
              THEN [parser EXCEPT !.inQuotes = ~@, !.k = @ + 1]
              ELSE IF c = ","
                   THEN [parser EXCEPT !.fields = Append(@, parser.current),
                                       !.current = "", !.k = @ + 1]
                   ELSE [parser EXCEPT !.current = @ \o c, !.k = @ + 1]
    /\ UNCHANGED <<file, globals, index, loader, serving, req, resp, published,
                   pool, sync, running, mainPc, queueMutex, reloadPc>>

\* one turn of the loop over the characters of the line
ParseChar ==
    /\ parser.status = "loop"
    /\ parser.k <= Len(parser.line)
    /\ LET c == CharAt(parser.line, parser.k)
       IN  parser' =
              IF c = "\""
              THEN [parser EXCEPT !.inQuotes = ~@, !.k = @ + 1]
              ELSE IF c = "," /\ ~parser.inQuotes
                   THEN [parser EXCEPT !.fields = Append(@, parser.current),
                                       !.current = "", !.k = @ + 1]
                   ELSE [parser EXCEPT !.current = @ \o c, !.k = @ + 1]
    /\ UNCHANGED <<file, globals, index, loader, serving, req, resp, published,
                   pool, sync, running, mainPc, queueMutex, reloadPc>>

\* the loop is over and the last field is pushed
ParseEnd ==
    /\ parser.status = "loop"
    /\ parser.k > Len(parser.line)
    /\ parser' = [parser EXCEPT !.status = "done",
                                !.fields = Append(@, parser.current)]
    /\ UNCHANGED <<file, globals, index, loader, serving, req, resp, published,
                   pool, sync, running, mainPc, queueMutex, reloadPc>>

NextParse == ParseBegin \/ ParseChar \/ ParseEnd

SpecParse == InitParse /\ [][NextParse]_vars

(***************************************************************************)
(* Properties of the server (Spec)                                         *)
(***************************************************************************)
\* the index the load in progress is building, as it will be once complete
NextGeneration ==
    IF loadPc \in {"clear", "merge", "rebuild"}
    THEN RebuildIndex(MergedGlobals(threads, NumThreads).movies)
    ELSE published

\* C1: a SEARCH that runs while loadMovies merges and rebuilds observes the
\* postings of one generation: its result is the result of the same search
\* on the index the last completed load left, or on the index the load in
\* progress will leave, never on an index cleared and partly repopulated.
C1_GenerationAtomicity ==
    [][(req = NoRequest /\ req'.op = "SEARCH") =>
          resp'.results \in
             {searchByKeywords(published, SearchKeywords(req'.text)),
              searchByKeywords(NextGeneration, SearchKeywords(req'.text))}]_vars

\* C2: a call of loadMovies that finds the file unreadable returns with an
\* error and leaves the collection, the derived fact sets and the index as
\* they were.
C2_FailedLoadKeepsGeneration ==
    [][(loadPc = "open" /\ ~file.readable /\ loadPc' # loadPc) =>
          /\ loadPc' = "idle"
          /\ loadStatus' = "error"
          /\ UNCHANGED <<movies, genres, languages, years, ratings, index>>]_vars

\* a reload failed after a load had filled the collection and the index
C2_Witness ==
    /\ loadPc = "idle"
    /\ loadStatus = "error"
    /\ ~file.readable
    /\ movies # <<>>
    /\ genres # {}
    /\ index # EmptyIndex

\* the threads that are executing loadMovies
InLoadMovies ==
    (IF ~serving THEN {"main"} ELSE {})
    \cup (IF reloadPc = "load" THEN {"reload"} ELSE {})

\* C30: at most one thread executes loadMovies at any time: the reload
\* thread does not exist before main's call has returned and runs its calls
\* one after another; and after each load, failed or successful, the reload
\* thread calls loadMovies again.
C30_LoadsSequential ==
    /\ [](/\ Cardinality(InLoadMovies) <= 1
          /\ loadPc # "idle" <=> InLoadMovies # {}
          /\ reloadPc = "none" <=> ~serving)
    /\ (serving /\ loadPc = "idle") ~> (reloadPc = "load" /\ loadPc = "open")

\* the reload thread is merging after a load that failed
C30_Witness ==
    /\ serving
    /\ reloadPc = "load"
    /\ loadPc = "merge"
    /\ loadStatus = "error"

\* C28: every id a handler uses to index the collection is smaller than the
\* size of the collection when the handler lists its results, a reload
\* running or not.
C28_IdsInRange ==
    [][(req = NoRequest /\ req' # NoRequest) =>
           \A id \in resp'.results : id < Len(movies')]_vars

(***************************************************************************)
(* Properties of the query paths (SpecQuery)                               *)
(***************************************************************************)
Ids == {i - 1 : i \in DOMAIN movies}

RatingOf(id) == movies[id + 1].rating

Posting(key) == IF key \in DOMAIN index THEN index[key] ELSE {}

IsPost == req.op = "POST"

NoFilter ==
    req.params.genre = "" /\ req.params.year = "" /\ req.params.language = ""

\* C3: a POST with none of genre, year, language and keywords supplied, with
\* or without a sort directive, returns the empty result.
C3_EmptyQuery ==
    (IsPost /\ NoFilter /\ req.params.keywords = "") =>
        (resp.results = {} /\ resp.sortedResults = <<>>)

\* a POST with no criteria and a sort directive was handled on a loaded catalog
C3_Witness ==
    /\ IsPost /\ NoFilter /\ req.params.keywords = ""
    /\ req.params.sort = "rating_desc"
    /\ Len(movies) = 2

\* the result sets of the filters a POST supplies
SuppliedFilters ==
    (IF req.params.genre # "" THEN {GenreResults(index, req.params.genre)} ELSE {})
    \cup (IF req.params.year # ""
          THEN {searchByCategory(index, "year", req.params.year)} ELSE {})
    \cup (IF req.params.language # ""
          THEN {searchByCategory(index, "language", req.params.language)} ELSE {})

\* C4: the result of a POST is the intersection of the result sets of the
\* filters it supplies; if a supplied filter matches no item the result is
\* empty, whatever the later filters and the keywords match.
C4_FilterIntersection ==
    (IsPost /\ SuppliedFilters # {}) =>
        /\ req.params.keywords = "" =>
              resp.results = {id \in Ids : \A f \in SuppliedFilters : id \in f}
        /\ {} \in SuppliedFilters => resp.results = {}

\* C5: adding one keyword to the keywords of a POST never adds an item to
\* its result.
C5_KeywordMonotonicity ==
    (IsPost /\ PostKeywords(req.params.keywords) # <<>>) =>
        \A w \in KeywordPool :
            PostResults(index, movies,
                        [req.params EXCEPT !.keywords = (@ \o "+") \o w])
                \subseteq resp.results

IsKeywordSearch == req.op = "searchByKeywords"

\* the items one keyword matches: those in the posting list of the cleaned,
\* lowercased keyword under one of the six categories
Matches(keyword) ==
    {id \in Ids :
        \E category \in {"title", "overview", "genre", "language", "year", "rating"} :
            id \in Posting((category \o "_") \o toLower(cleanWord(keyword)))}

MatchesAll(keys, n) == {id \in Ids : \A k \in 1..n : id \in Matches(keys[k])}

\* C6: searchByKeywords on a non-empty keyword sequence returns the
\* intersection over the keywords of the union of the keyword's posting lists
\* across the six categories; once that intersection is empty after some
\* keyword, the result is empty.
C6_KeywordIntersection ==
    (IsKeywordSearch /\ req.keys # <<>>) =>
        /\ resp.results = MatchesAll(req.keys, Len(req.keys))
        /\ \A n \in 1..Len(req.keys) :
              MatchesAll(req.keys, n) = {} => resp.results = {}

\* a search on two keywords returned some but not all of the items the first
\* keyword matches
C6_Witness ==
    /\ IsKeywordSearch
    /\ Len(req.keys) = 2
    /\ resp.results # {}
    /\ resp.results # Matches(req.keys[1])

IsLookup == req.op = "searchByCategory"

\* C7: after a completed load, the lookups of the year, of the language and
\* of every word of every genre of an item all contain the item's position.
C7_RoundTrip ==
    (IsLookup /\ loadStatus = "ok") =>
        \A id \in Ids :
            LET item == movies[id + 1]
            IN  (\/ req.category = "year" /\ req.value = to_string(item.year)
                 \/ req.category = "language" /\ req.value = item.language
                 \/ /\ req.category = "genre"
                    /\ \E g \in DOMAIN item.genres :
                          req.value \in Range(SplitWords(item.genres[g])))
                => id \in resp.results

\* a word of a two-word genre of one of two items was looked up and the
\* lookup holds that item alone
C7_Witness ==
    /\ IsLookup /\ loadStatus = "ok"
    /\ Len(movies) = 2
    /\ req.category = "genre"
    /\ \E id \in Ids :
          /\ \E g \in DOMAIN movies[id + 1].genres :
                /\ Len(SplitWords(movies[id + 1].genres[g])) = 2
                /\ req.value = SplitWords(movies[id + 1].genres[g])[2]
          /\ resp.results = {id}

\* C8: an item with rating r, 0 < r <= 10, is in the posting list of the
\* rating token of integer k exactly when floor(r) <= k <= 10.
C8_RatingBuckets ==
    loadStatus = "ok" =>
        \A id \in Ids : \A k \in (0 - 1)..12 :
            (RatingOf(id) > 0 /\ RatingOf(id) <= 100) =>
                (id \in Posting("rating_" \o to_string(k))
                    <=> (RatingOf(id) < 10 * (k + 1) /\ k <= 10))

\* an item rated 7.3 has been indexed: it is in the bucket of 7 and not in
\* the bucket of 6
C8_Witness ==
    /\ loadStatus = "ok"
    /\ \E id \in Ids :
          /\ RatingOf(id) = 73
          /\ id \in Posting("rating_7")
          /\ id \in Posting("rating_10")
          /\ id \notin Posting("rating_6")

IsRatingLookup(k) ==
    IsLookup /\ req.category = "rating" /\ req.value = to_string(k)

\* C9 as claimed: the lookup of rating bucket k returns the items whose
\* rating is at least k.
C9_AtLeast ==
    \A k \in 0..10 :
        IsRatingLookup(k) => resp.results = {id \in Ids : RatingOf(id) >= 10 * k}

\* C9 as amended: the lookup of rating bucket k, for k in 0..10, returns the
\* items whose rating is below k + 1, those with floor(rating) <= k.
C9_Below ==
    \A k \in 0..10 :
        IsRatingLookup(k) => resp.results = {id \in Ids : RatingOf(id) < 10 * (k + 1)}

\* the bucket of 7 was looked up in a catalog of an item rated 7.3, which it
\* holds, and an item rated 10, which it does not hold
C9_Witness ==
    /\ IsRatingLookup(7)
    /\ \E id \in resp.results : RatingOf(id) = 73
    /\ \E id \in Ids \ resp.results : RatingOf(id) = 100

IsPermutation(seq, set) ==
    /\ Len(seq) = Cardinality(set)
    /\ Range(seq) = set

\* C10: the sequence a POST returns is a permutation of its result set; under
\* rating_asc the ratings along it never decrease, under rating_desc they
\* never increase.
C10_Sorted ==
    IsPost =>
        /\ IsPermutation(resp.sortedResults, resp.results)
        /\ req.params.sort = "rating_asc" =>
              \A j \in 1..(Len(resp.sortedResults) - 1) :
                  RatingOf(resp.sortedResults[j]) <= RatingOf(resp.sortedResults[j + 1])
        /\ req.params.sort = "rating_desc" =>
              \A j \in 1..(Len(resp.sortedResults) - 1) :
                  RatingOf(resp.sortedResults[j]) >= RatingOf(resp.sortedResults[j + 1])

\* a POST sorted by ascending rating returned the second item of the
\* collection before the first
C10_Witness ==
    /\ IsPost
    /\ req.params.sort = "rating_asc"
    /\ resp.sortedResults = <<1, 0>>
    /\ RatingOf(1) < RatingOf(0)

(***************************************************************************)
(* Properties of the thread pool and of handleClient (SpecPool)            *)
(***************************************************************************)
Handled == req.op = "handleClient"

\* C11: handleClient sends at most one response on a connection.
C11_AtMostOneResponse == \A c \in DOMAIN conn : conn[c].sent <= 1

BeginsWith(str, prefix) ==
    Len(str) >= Len(prefix) /\ SubSeq(str, 1, Len(prefix)) = prefix

Recognized(request) ==
    \E prefix \in {"GET", "POST", "SEARCH"} : BeginsWith(request, prefix)

\* C12: a connection whose read is empty, or whose request begins with none
\* of GET, POST and SEARCH, is closed with no response sent.
C12_ProtocolError ==
    (Handled /\ ~Recognized(req.request)) =>
        /\ resp.responses = <<>>
        /\ \A w \in Workers : workerPc[w] # "terminated"

\* C13 as claimed: a connection that is in the queue when the destructor
\* sets stop is never dequeued and gets no response.
C13_QueuedDropped ==
    \A c \in queuedAtStop : conn[c].state = "queued" /\ conn[c].sent = 0

\* C13 as amended: a connection that is in the queue when the destructor
\* sets stop stays in the queue until a worker dequeues it, and no worker
\* exits unless stop is set and the queue is empty.
C13_QueuedDrained ==
    /\ \A w \in Workers : workerPc[w] = "exited" => (stop /\ tasks = <<>>)
    /\ \A c \in queuedAtStop : conn[c].state = "queued" <=> c \in Range(tasks)

\* a connection that was in the queue when stop was set has been handled and
\* answered, and every worker has exited
C13_Witness ==
    /\ stop
    /\ \E c \in queuedAtStop : conn[c].state = "closed" /\ conn[c].sent = 1
    /\ \A w \in Workers : workerPc[w] = "exited"

\* C14: of two connections the one enqueued first is dequeued first: when a
\* connection has left the queue, every connection enqueued before it has.
C14_Fifo ==
    \A a, b \in DOMAIN conn :
        (a < b /\ conn[b].state # "queued") => conn[a].state # "queued"

\* three connections were enqueued; two workers took the first two, in order,
\* and the third is still in the queue
C14_Witness ==
    /\ Len(conn) = 3
    /\ workerSocket[1] = 2 /\ workerPc[1] = "handling"
    /\ workerSocket[2] = 1 /\ workerPc[2] = "handling"
    /\ tasks = <<3>>

\* C15: no request drives a worker into an uncaught error: handleClient
\* returns and the process goes on.
C15_NoAbort == ~aborted /\ \A w \in Workers : workerPc[w] # "terminated"

\* the workers that hold connection c and run handleClient on it
Handlers(c) == {w \in Workers : workerPc[w] = "handling" /\ workerSocket[w] = c}

\* C29: a connection taken from the queue is held by exactly one worker
\* until handleClient has closed its socket, which it does exactly once on
\* every path, and a worker is back at the queue only with the socket of its
\* last connection closed.
C29_ClosedExactlyOnce ==
    /\ \A c \in DOMAIN conn :
          /\ conn[c].state = "queued" => (Handlers(c) = {} /\ conn[c].closes = 0)
          /\ conn[c].state = "dequeued" =>
                (Cardinality(Handlers(c)) = 1 /\ conn[c].closes = 0)
          /\ conn[c].state = "closed" => (Handlers(c) = {} /\ conn[c].closes = 1)
    /\ \A w \in Workers :
          (workerPc[w] \in {"waiting", "exited"} /\ workerSocket[w] # 0) =>
              conn[workerSocket[w]].state = "closed"

(***************************************************************************)
(* Properties of a completed load (SpecLoad)                               *)
(***************************************************************************)
Loaded == loadPc = "idle" /\ loadStatus = "ok"

IsNumeric(str) == str # "" /\ SubSeq(str, 1, 1) \in Chars(Digits)

\* a row with fewer than 9 fields, or a year or a rating that is no number
Malformed(fields) ==
    \/ Len(fields) < 9
    \/ ~IsNumeric(fields[1])
    \/ ~IsNumeric(fields[6])

\* C16: after a completed load every item has a title, an overview, a genre,
\* a year other than 0 and a rating above 0, and no item comes from a row
\* with fewer than 9 fields or with a non-numeric year or rating.
C16_RetainedValid ==
    Loaded =>
        /\ \A i \in DOMAIN movies :
              /\ movies[i].title # ""
              /\ movies[i].overview # ""
              /\ movies[i].genres # <<>>
              /\ movies[i].year # 0
              /\ movies[i].rating > 0
        /\ \A k \in DOMAIN file.lines :
              LET fields == ParseFields(file.lines[k])
              IN  (Len(fields) >= 2 /\ Malformed(fields)) =>
                     \A i \in DOMAIN movies : movies[i].title # fields[2]

\* a file of a row with a non-numeric rating and a row with rating 0 or a
\* good row was loaded, and the collection holds the good row alone or nothing
C16_Witness ==
    /\ Loaded
    /\ \E k \in DOMAIN file.lines :
          LET fields == ParseFields(file.lines[k])
          IN  Len(fields) = 9 /\ fields[6] = "n/a"
    /\ \E k \in DOMAIN file.lines :
          LET fields == ParseFields(file.lines[k])
          IN  Len(fields) = 9 /\ fields[2] = "Heat"
    /\ Len(movies) = 1
    /\ movies[1].title = "Heat"

\* C17: after a completed load the derived fact sets hold exactly the genres,
\* years, languages and ratings of the items of the collection.
C17_DerivedFacts ==
    Loaded =>
        /\ genres = UNION {Range(movies[i].genres) : i \in DOMAIN movies}
        /\ years = {movies[i].year : i \in DOMAIN movies}
        /\ languages = {movies[i].language : i \in DOMAIN movies}
        /\ ratings = {movies[i].rating : i \in DOMAIN movies}

\* C19: after a completed load the item at position i of the collection has
\* identifier i.
C19_DenseIds ==
    Loaded => \A i \in DOMAIN movies : movies[i].id = i - 1

(***************************************************************************)
(* Properties of the chunk ranges (SpecChunk)                              *)
(***************************************************************************)
\* C20: no line of the file is processed by more than one chunk thread.
C20_ChunksDisjoint ==
    loadPc = "clear" =>
        \A i, j \in DOMAIN threads :
            i # j => threads[i].lines \cap threads[j].lines = {}

(***************************************************************************)
(* Properties of the index mutex (SpecIndex)                               *)
(***************************************************************************)
\* C18: every access to the posting map is made with the index mutex held,
\* and no thread reads the map while another thread is inside a mutation of
\* it; the POST keyword loop, which reads through getIndexData(), included.
C18_IndexMutex ==
    /\ reading # NotReading => mtx = "worker"
    /\ ~(reading # NotReading /\ mtx = "loader")

\* C21: every line of the file is processed by at least one chunk thread,
\* a line that straddles a chunk boundary or starts at one included.
C21_EveryLineParsed ==
    loadPc = "clear" =>
        UNION {threads[i].lines : i \in DOMAIN threads} = DOMAIN file.lines

\* C23: the result of a POST that supplies a genre of several words, and
\* nothing else, is the set of the items in the genre posting list of every
\* word; a word with no posting makes it empty whatever words follow.
C23_GenreIntersection ==
    (IsPost /\ req.params.genre # "" /\ req.params.year = ""
            /\ req.params.language = "" /\ req.params.keywords = "") =>
        resp.results =
            {id \in Ids :
                \A word \in Range(SplitWords(ReplacePlus(req.params.genre))) :
                    id \in Posting("genre_" \o toLower(word))}

\* C24: a POST that supplies keywords returns what searchByKeywords returns
\* on the same keyword list, intersected with the result of the filters when
\* it supplies filters too.
C24_KeywordsAsSearchByKeywords ==
    (IsPost /\ req.params.keywords # "") =>
        LET keywordSet == searchByKeywords(index, SplitOn(req.params.keywords, "+"))
        IN  IF NoFilter
            THEN resp.results = keywordSet
            ELSE resp.results =
                     intersectResults(AfterLanguage(index, movies, req.params), keywordSet)

(***************************************************************************)
(* Properties of the line parser (SpecParse)                               *)
(***************************************************************************)
\* the line without its character at position d
RemoveAt(line, d) == SubSeq(line, 1, d - 1) \o SubSeq(line, d + 1, Len(line))

\* the positions of the line that hold a delimiter read while in quotes
QuotedDelimiters(line) ==
    {d \in 1..Len(line) : CharAt(line, d) = "," /\ InQuotes(line, d)}

\* C25: reading a quote toggles inQuotes and adds nothing to the field;
\* reading a delimiter while in quotes adds it to the current field and
\* pushes no field; and the parsed line has as many fields as the same line
\* with one of its quoted delimiters removed.
C25_QuotedDelimiter ==
    [][/\ (parser.status = "loop" /\ parser'.status = "loop") =>
             LET c == CharAt(parser.line, parser.k)
             IN  /\ c = "\"" =>
                       /\ parser'.inQuotes = ~parser.inQuotes
                       /\ parser'.current = parser.current
                       /\ parser'.fields = parser.fields
                 /\ (c = "," /\ parser.inQuotes) =>
                       /\ parser'.inQuotes
                       /\ parser'.current = parser.current \o ","
                       /\ parser'.fields = parser.fields
       /\ parser'.status = "done" =>
             /\ \A i \in DOMAIN parser'.fields :
                    "\"" \notin Chars(parser'.fields[i])
             /\ parser'.fields = ParseFields(parser'.line)
             /\ \A d \in QuotedDelimiters(parser'.line) :
                    Len(ParseFields(RemoveAt(parser'.line, d))) = Len(parser'.fields)]_vars

\* the line a,"," was parsed: its second comma was read in quotes and is the
\* second of two fields
C25_Witness ==
    /\ parser.status = "done"
    /\ parser.line = "a,\",\""
    /\ parser.fields = <<"a", ",">>

(***************************************************************************)
(* Properties of the chunk threads and the merge (SpecBarrier)             *)
(***************************************************************************)
\* C22: while a chunk thread of a load has not finished, the collection,
\* the fact sets and the index are not modified, and a chunk thread writes
\* its own element of the per-thread vectors only.
C22_LoaderBarrier ==
    [][/\ running # {} => UNCHANGED <<movies, genres, languages, years, ratings, index>>
       /\ (running # {} /\ running' # running) =>
             \E i \in running :
                /\ running' = running \ {i}
                /\ \A j \in DOMAIN threads \ {i} : threads'[j] = threads[j]]_vars

\* during a reload some chunk threads have finished, one of them with a
\* movie, others still run, and the collection and the index are those of
\* the previous load
C22_Witness ==
    /\ serving
    /\ running # {}
    /\ \E i \in DOMAIN threads \ running : threads[i].movies # <<>>
    /\ Len(movies) = 2
    /\ index = published /\ index # EmptyIndex

(***************************************************************************)
(* Properties of the pool's condition variable (SpecWaitFair)              *)
(***************************************************************************)
\* C26: once the destructor has set the stop flag, every worker eventually
\* leaves its loop and the destructor's joins return.
C26_ShutdownTerminates ==
    stop ~> (mainPc = "joined" /\ \A w \in Workers : workerPc[w] = "exited")

\* the destructor was called with a connection accepted, and has returned
C26_Witness ==
    /\ mainPc = "joined"
    /\ \A w \in Workers : workerPc[w] = "exited"
    /\ conn # <<>>
    /\ \A c \in DOMAIN conn : conn[c].state = "closed"

\* C27: every connection passed to enqueue is eventually dequeued and
\* handled by a worker, whatever the interleaving of the push and the
\* notification with the workers' wait.
C27_NoLostWakeup ==
    \A c \in 1..MaxConnections :
        (c \in DOMAIN conn) ~> (c \in DOMAIN conn /\ conn[c].state = "closed")

\* every connection was handled with the pool not stopped, and the workers
\* are blocked in cv.wait again
C27_Witness ==
    /\ ~stop
    /\ Len(conn) = MaxConnections
    /\ \A c \in DOMAIN conn : conn[c].state = "closed"
    /\ \A w \in Workers : workerPc[w] = "blocked"

====
